---- MODULE Spec2Model ----
(***************************************************************************)
(* The request handlers of src/python/main.py over the tables of           *)
(* src/python/models.py.  The store is SQLite reached through SQLAlchemy   *)
(* sessions (src/python/database.py): every SELECT of a handler is one     *)
(* atomic step, and every db.commit() (its flush and COMMIT) is one atomic *)
(* step; the steps of handlers running in different worker threads         *)
(* interleave.  Foreign keys are declared but the connection never turns   *)
(* their enforcement on, so the store does not check them.  Timestamps are *)
(* readings of the wall clock (datetime.utcnow), which the handlers never  *)
(* set and which need not have advanced between two readings.              *)
(***************************************************************************)
EXTENDS Integers, Sequences, FiniteSets, TLC

\* ---------------------------------------------------------------- bounds
\* Like-row ids grow without limit under insert/delete; a like_post request
\* is only started while the next id is at most MaxLikeId.
MaxLikeId == 2
\* A like_post request is only started while the counter is below MaxLikes.
MaxLikes == 2
\* The wall clock is read while it shows at most MaxClock.
MaxClock == 1

\* Worker threads serving requests, one request at a time each.
Sessions == {"s1", "s2"}
\* Identifiers generate_id can return (and path parameters a client can send).
PostIds == {"p_1", "p_2"}
\* The identifiers in play when requests overlap.
OnePost == {"p_1"}
OneComment == {"c_1"}
CommentIds == {"c_1", "c_2"}
\* Strings a client can send in the body; "" is the empty string.
Usernames == {"", "alice", "bob"}
Contents == {"", "hi"}

VARIABLES
    posts,      \* table posts: id -> row
    comments,   \* table comments: id -> row
    likes,      \* table likes: set of rows
    pc,         \* where each session's handler stands ("idle": serving nothing)
    req,        \* the request each session is serving
    loc,        \* each handler's local objects
    out,        \* the response sent by the last handler step, if that step sent one
    race,       \* history: two concurrent likes of one pair, see LikePostCheck
    clock,      \* what datetime.utcnow() returns now
    prev        \* history: the 201 of create_post that the get_post answered in out
                \* directly followed, see Answer

vars == <<posts, comments, likes, pc, req, loc, out, race, clock, prev>>
db == <<posts, comments, likes>>

\* ----------------------------------------------------------------- rows
PostRow(id, u, t, n, c, m) ==
    [id |-> id, username |-> u, content |-> t, likes |-> n, createdAt |-> c, updatedAt |-> m]
CommentRow(id, p, u, t, c, m) ==
    [id |-> id, postId |-> p, username |-> u, content |-> t, createdAt |-> c, updatedAt |-> m]
LikeRow(id, p, u, c) == [id |-> id, postId |-> p, username |-> u, createdAt |-> c]

NoPost == PostRow("", "", "", 0, 0, 0)
NoComment == CommentRow("", "", "", "", 0, 0)
NoLoc == [post |-> NoPost, comment |-> NoComment, likeId |-> 0, kidsC |-> {}, kidsL |-> {},
          commentId |-> ""]
NoReq == [op |-> "", postId |-> "", commentId |-> "", username |-> "", content |-> ""]
Req(op, p, c, u, t) == [op |-> op, postId |-> p, commentId |-> c, username |-> u, content |-> t]
NoOut == [req |-> NoReq, status |-> 0, body |-> {}]
NoRace == [on |-> FALSE, a |-> "", b |-> "", postId |-> "", username |-> "", base |-> 0]

MaxOf(S) == CHOOSE m \in S : \A x \in S : x <= m
MinOf(S) == CHOOSE m \in S : \A x \in S : m <= x

\* likes.id is INTEGER PRIMARY KEY without AUTOINCREMENT: the largest rowid plus one.
NextLikeId(L) == IF L = {} THEN 1 ELSE MaxOf({l.id : l \in L}) + 1

LikesOf(L, p, u) == {l \in L : l.postId = p /\ l.username = u}
LikesOfPost(L, p) == {l \in L : l.postId = p}
CommentsOfPost(C, p) == {c \in DOMAIN C : C[c].postId = p}

FirstLike_AnyUser(L, p, u) ==
    IF LikesOfPost(L, p) = {} THEN 0 ELSE MinOf({l.id : l \in LikesOfPost(L, p)})
\* db.query(DBLike).filter(postId, username).first(): the id of the row found, 0 for None.
FirstLike(L, p, u) == IF LikesOf(L, p, u) = {} THEN 0 ELSE MinOf({l.id : l \in LikesOf(L, p, u)})

\* DELETE FROM likes WHERE id = ?, once for each id of ids.
DeleteById(L, ids) == {l \in L : l.id \notin ids}
\* DELETE FROM comments WHERE id = ?, once for each id of ids.
DeleteComments(C, ids) == [c \in DOMAIN C \ ids |-> C[c]]
\* DELETE FROM posts WHERE id = p.
DeletePost(Ps, p) == [q \in DOMAIN Ps \ {p} |-> Ps[q]]

\* ------------------------------------------------------------- schemas
\* Field(..., min_length=1)
MinLength1(str) == Len(str) >= 1
\* PostBase, CommentBase: username and content, both min_length=1.
ValidPostBody(u, t) == MinLength1(u) /\ MinLength1(t)
\* LikeRequest: username, min_length=1.
ValidLikeBody(u) == MinLength1(u)
\* The handlers' own test, `not x.username or not x.content`.
Falsy(str) == str = ""

\* ------------------------------------------------------ table constraints
UniqueViolation_Off(L, p, u) == FALSE
\* UniqueConstraint('postId', 'username'): the INSERT of (p, u) is refused.
UniqueViolation(L, p, u) == LikesOf(L, p, u) # {}

Increment_Twice(n) == n + 2
\* post.likes += 1
Increment(n) == n + 1

Decrement_NoFloor(n) == n - 1
\* post.likes = max(0, post.likes - 1)
Decrement(n) == IF n - 1 > 0 THEN n - 1 ELSE 0

\* --------------------------------------------------------------- steps
InFlight(s) == pc[s] # "idle"
Quiet == \A s \in Sessions : ~InFlight(s)

\* A request r reaches idle session s.
Begin(s, r) ==
    /\ ~InFlight(s)
    /\ race' = IF race.on /\ s \in {race.a, race.b} THEN NoRace ELSE race

\* The handler serving r answers: the response goes out and its objects are dropped.
\* History: when r is a get_post and the response before it was the 201 of a
\* create_post (no request was served in between), prev keeps that 201.
Answer(s, r, st, b) ==
    /\ pc' = [pc EXCEPT ![s] = "idle"]
    /\ req' = [req EXCEPT ![s] = NoReq]
    /\ loc' = [loc EXCEPT ![s] = NoLoc]
    /\ out' = [req |-> r, status |-> st, body |-> b]
    /\ prev' = IF r.op = "get_post" /\ out.req.op = "create_post" /\ out.status = 201
                THEN out ELSE NoOut
    /\ clock' = clock

\* The handler serving r goes on to its step l with local objects newloc.
Goto(s, r, l, newloc) ==
    /\ pc' = [pc EXCEPT ![s] = l]
    /\ req' = [req EXCEPT ![s] = r]
    /\ loc' = [loc EXCEPT ![s] = newloc]
    /\ out' = NoOut
    /\ prev' = NoOut
    /\ clock' = clock

Init ==
    /\ posts = << >>
    /\ comments = << >>
    /\ likes = {}
    /\ pc = [s \in Sessions |-> "idle"]
    /\ req = [s \in Sessions |-> NoReq]
    /\ loc = [s \in Sessions |-> NoLoc]
    /\ out = NoOut
    /\ race = NoRace
    /\ clock = 0
    /\ prev = NoOut

\* The wall clock advances; no handler is involved.
Tick ==
    /\ clock < MaxClock
    /\ clock' = clock + 1
    /\ UNCHANGED <<db, pc, req, loc, out, race, prev>>

\* ------------------------------------------------------------ create_post
\* Body validation, the handler's own check, and db.add + db.commit with the id
\* generate_id draws (from P); an id already in the table fails the INSERT.  The
\* INSERT takes createdAt and updatedAt from the clock and likes as 0.
CreatePost(s, P) ==
    \E u \in Usernames, t \in Contents, id \in P :
        LET r == Req("create_post", "", "", u, t) IN
        /\ Begin(s, r)
        /\ IF ~ValidPostBody(u, t)
             THEN Answer(s, r, 422, {}) /\ UNCHANGED db
           ELSE IF Falsy(u) \/ Falsy(t)
             THEN Answer(s, r, 400, {}) /\ UNCHANGED db
           ELSE IF id \in DOMAIN posts
             THEN Answer(s, r, 500, {}) /\ UNCHANGED db
           ELSE /\ posts' = (id :> PostRow(id, u, t, 0, clock, clock)) @@ posts
                /\ Goto(s, r, "create_post_refresh",
                        [NoLoc EXCEPT !.post = PostRow(id, u, t, 0, clock, clock)])
                /\ UNCHANGED <<comments, likes>>

CreatePostRefresh_StampNow(s) ==
    /\ pc[s] = "create_post_refresh"
    /\ Answer(s, req[s], 201, {[loc[s].post EXCEPT !.createdAt = clock, !.updatedAt = clock]})
    /\ UNCHANGED <<db, race>>
\* db.refresh(db_post); return db_post
CreatePostRefresh(s) ==
    /\ pc[s] = "create_post_refresh"
    /\ LET id == loc[s].post.id IN
         IF id \in DOMAIN posts
           THEN Answer(s, req[s], 201, {posts[id]})
           ELSE Answer(s, req[s], 500, {})
    /\ UNCHANGED <<db, race>>

\* -------------------------------------------------------------- list_posts
\* db.query(DBPost).all()
ListPosts(s) ==
    LET r == Req("list_posts", "", "", "", "") IN
    /\ Begin(s, r)
    /\ Answer(s, r, 200, {posts[p] : p \in DOMAIN posts})
    /\ UNCHANGED db

\* ---------------------------------------------------------------- get_post
GetPost(s, P) ==
    \E p \in P :
        LET r == Req("get_post", p, "", "", "") IN
        /\ Begin(s, r)
        /\ IF p \in DOMAIN posts
             THEN Answer(s, r, 200, {posts[p]})
             ELSE Answer(s, r, 404, {})
        /\ UNCHANGED db

\* --------------------------------------------------------------- like_post
\* Body validation, then the post lookup and the handler's own username check.
LikePostBegin(s, P) ==
    \E p \in P, u \in Usernames :
        LET r == Req("like_post", p, "", u, "") IN
        /\ NextLikeId(likes) <= MaxLikeId
        /\ p \in DOMAIN posts => posts[p].likes < MaxLikes
        /\ Begin(s, r)
        /\ IF ~ValidLikeBody(u) THEN Answer(s, r, 422, {})
           ELSE IF p \notin DOMAIN posts THEN Answer(s, r, 404, {})
           ELSE IF Falsy(u) THEN Answer(s, r, 400, {})
           ELSE Goto(s, r, "like_check", [NoLoc EXCEPT !.post = posts[p]])
        /\ UNCHANGED db

\* existing_like = db.query(DBLike)...first(); an existing like returns the post as loaded.
\* History: when this lookup passes while another like_post of the same pair has
\* passed its own and not yet committed, both having loaded the same counter value,
\* race records the two sessions, the pair and that value.
LikePostCheck(s) ==
    /\ pc[s] = "like_check"
    /\ LET p == req[s].postId
           u == req[s].username
           others == {t \in Sessions \ {s} : /\ pc[t] = "like_commit"
                                               /\ req[t].postId = p
                                               /\ req[t].username = u
                                               /\ loc[t].post.likes = loc[s].post.likes}
       IN IF FirstLike(likes, p, u) # 0
            THEN Answer(s, req[s], 200, {loc[s].post}) /\ UNCHANGED race
            ELSE /\ Goto(s, req[s], "like_commit", loc[s])
                 /\ race' = IF others # {}
                              THEN [on |-> TRUE, a |-> s, b |-> CHOOSE t \in others : TRUE,
                                    postId |-> p, username |-> u, base |-> loc[s].post.likes]
                              ELSE race
    /\ UNCHANGED db

LikePostCommit_NoAdd(s) ==
    /\ pc[s] = "like_commit"
    /\ req[s].postId \in DOMAIN posts
    /\ posts' = [posts EXCEPT ![req[s].postId].likes = Increment(loc[s].post.likes),
                              ![req[s].postId].updatedAt = clock]
    /\ Goto(s, req[s], "like_refresh", NoLoc)
    /\ UNCHANGED <<comments, likes, race>>

\* db.add(db_like); post.likes += 1; db.commit().  The flush writes the post row first
\* (UPDATE ... WHERE id = p, with updatedAt from its onupdate: no row matched raises
\* StaleDataError, caught as Exception), then inserts the like (a unique violation
\* raises IntegrityError); either rolls back.
LikePostCommit(s) ==
    /\ pc[s] = "like_commit"
    /\ LET p == req[s].postId
           u == req[s].username
       IN IF p \notin DOMAIN posts
            THEN Answer(s, req[s], 500, {}) /\ UNCHANGED db
          ELSE IF UniqueViolation(likes, p, u)
            THEN Goto(s, req[s], "like_rollback", loc[s]) /\ UNCHANGED db
          ELSE /\ posts' = [posts EXCEPT ![p].likes = Increment(loc[s].post.likes),
                                         ![p].updatedAt = clock]
               /\ likes' = likes \cup {LikeRow(NextLikeId(likes), p, u, clock)}
               /\ Goto(s, req[s], "like_refresh", NoLoc)
               /\ UNCHANGED comments
    /\ UNCHANGED race

\* db.refresh(post); return post.  A post deleted meanwhile cannot be refreshed:
\* InvalidRequestError, caught as Exception.
LikePostRefresh(s) ==
    /\ pc[s] = "like_refresh"
    /\ LET p == req[s].postId IN
         IF p \in DOMAIN posts
           THEN Answer(s, req[s], 200, {posts[p]})
           ELSE Answer(s, req[s], 500, {})
    /\ UNCHANGED <<db, race>>

LikePostRollback_NoRefresh(s) ==
    /\ pc[s] = "like_rollback"
    /\ Answer(s, req[s], 200, {loc[s].post})
    /\ UNCHANGED <<db, race>>
\* except IntegrityError: db.rollback(); db.refresh(post); return post.  A failing
\* refresh here is not caught by the handler: the framework answers 500.
LikePostRollback(s) ==
    /\ pc[s] = "like_rollback"
    /\ LET p == req[s].postId IN
         IF p \in DOMAIN posts
           THEN Answer(s, req[s], 200, {posts[p]})
           ELSE Answer(s, req[s], 500, {})
    /\ UNCHANGED <<db, race>>

\* ------------------------------------------------------------- unlike_post
UnlikePostBegin(s, P) ==
    \E p \in P, u \in Usernames :
        LET r == Req("unlike_post", p, "", u, "") IN
        /\ Begin(s, r)
        /\ IF ~ValidLikeBody(u) THEN Answer(s, r, 422, {})
           ELSE IF p \notin DOMAIN posts THEN Answer(s, r, 404, {})
           ELSE IF Falsy(u) THEN Answer(s, r, 400, {})
           ELSE Goto(s, r, "unlike_check", [NoLoc EXCEPT !.post = posts[p]])
        /\ UNCHANGED db

\* like = db.query(DBLike)...first(); no like returns the post as loaded.
UnlikePostCheck(s) ==
    /\ pc[s] = "unlike_check"
    /\ LET found == FirstLike(likes, req[s].postId, req[s].username) IN
         IF found = 0
           THEN Answer(s, req[s], 200, {loc[s].post})
           ELSE Goto(s, req[s], "unlike_commit", [loc[s] EXCEPT !.likeId = found])
    /\ UNCHANGED <<db, race>>

\* db.delete(like); post.likes = max(0, post.likes - 1); db.commit().  The flush
\* updates the post row when the counter's value changed (with updatedAt from its
\* onupdate; no row matched: StaleDataError, rollback, 500) and deletes the like by
\* primary key (no row matched is only a warning).
UnlikePostCommit(s) ==
    /\ pc[s] = "unlike_commit"
    /\ LET p == req[s].postId IN
         IF Decrement(loc[s].post.likes) = loc[s].post.likes
           THEN /\ likes' = DeleteById(likes, {loc[s].likeId})
                /\ Goto(s, req[s], "unlike_refresh", NoLoc)
                /\ UNCHANGED <<posts, comments>>
         ELSE IF p \notin DOMAIN posts
           THEN Answer(s, req[s], 500, {}) /\ UNCHANGED db
           ELSE /\ posts' = [posts EXCEPT ![p].likes = Decrement(loc[s].post.likes),
                                          ![p].updatedAt = clock]
                /\ likes' = DeleteById(likes, {loc[s].likeId})
                /\ Goto(s, req[s], "unlike_refresh", NoLoc)
                /\ UNCHANGED comments
    /\ UNCHANGED race

\* db.refresh(post); return post
UnlikePostRefresh(s) ==
    /\ pc[s] = "unlike_refresh"
    /\ LET p == req[s].postId IN
         IF p \in DOMAIN posts
           THEN Answer(s, req[s], 200, {posts[p]})
           ELSE Answer(s, req[s], 500, {})
    /\ UNCHANGED <<db, race>>

\* ------------------------------------------------------------- update_post
UpdatePostBegin(s, P) ==
    \E p \in P, u \in Usernames, t \in Contents :
        LET r == Req("update_post", p, "", u, t) IN
        /\ Begin(s, r)
        /\ IF ~ValidPostBody(u, t) THEN Answer(s, r, 422, {})
           ELSE IF p \notin DOMAIN posts THEN Answer(s, r, 404, {})
           ELSE IF Falsy(u) \/ Falsy(t) THEN Answer(s, r, 400, {})
           ELSE Goto(s, r, "update_post_commit", [NoLoc EXCEPT !.post = posts[p]])
        /\ UNCHANGED db

UpdatePostCommit_NoStamp(s) ==
    /\ pc[s] = "update_post_commit"
    /\ req[s].postId \in DOMAIN posts
    /\ posts' = [posts EXCEPT ![req[s].postId].username = req[s].username,
                              ![req[s].postId].content = req[s].content]
    /\ Goto(s, req[s], "update_post_refresh", NoLoc)
    /\ UNCHANGED <<comments, likes, race>>
\* post.username = ...; post.content = ...; post.updatedAt = datetime.utcnow();
\* db.commit().  The UPDATE sets the columns whose value differs from the one loaded,
\* and updatedAt; no row matched raises StaleDataError.
UpdatePostCommit(s) ==
    /\ pc[s] = "update_post_commit"
    /\ LET p == req[s].postId
           old == loc[s].post
       IN IF p \notin DOMAIN posts
            THEN Answer(s, req[s], 500, {}) /\ UNCHANGED db
            ELSE /\ posts' = [posts EXCEPT
                       ![p].username = IF req[s].username # old.username
                                         THEN req[s].username ELSE @,
                       ![p].content = IF req[s].content # old.content
                                        THEN req[s].content ELSE @,
                       ![p].updatedAt = clock]
                 /\ Goto(s, req[s], "update_post_refresh", NoLoc)
                 /\ UNCHANGED <<comments, likes>>
    /\ UNCHANGED race

\* db.refresh(post); return post
UpdatePostRefresh(s) ==
    /\ pc[s] = "update_post_refresh"
    /\ LET p == req[s].postId IN
         IF p \in DOMAIN posts
           THEN Answer(s, req[s], 200, {posts[p]})
           ELSE Answer(s, req[s], 500, {})
    /\ UNCHANGED <<db, race>>

\* ------------------------------------------------------------- delete_post
DeletePostBegin(s, P) ==
    \E p \in P :
        LET r == Req("delete_post", p, "", "", "") IN
        /\ Begin(s, r)
        /\ IF p \notin DOMAIN posts THEN Answer(s, r, 404, {})
           ELSE Goto(s, r, "delete_post_comments", NoLoc)
        /\ UNCHANGED db

\* db.delete(post): the delete cascade loads post.comments ...
DeletePostLoadComments(s) ==
    /\ pc[s] = "delete_post_comments"
    /\ Goto(s, req[s], "delete_post_likes",
            [NoLoc EXCEPT !.kidsC = CommentsOfPost(comments, req[s].postId)])
    /\ UNCHANGED <<db, race>>

\* ... and then post.liked_by.
DeletePostLoadLikes(s) ==
    /\ pc[s] = "delete_post_likes"
    /\ Goto(s, req[s], "delete_post_commit",
            [loc[s] EXCEPT !.kidsL = {l.id : l \in LikesOfPost(likes, req[s].postId)}])
    /\ UNCHANGED <<db, race>>

\* db.commit(): the loaded comments and likes, then the post, are deleted by primary
\* key (a DELETE matching no row is only a warning); 204.
DeletePostCommit(s) ==
    /\ pc[s] = "delete_post_commit"
    /\ comments' = DeleteComments(comments, loc[s].kidsC)
    /\ likes' = DeleteById(likes, loc[s].kidsL)
    /\ posts' = DeletePost(posts, req[s].postId)
    /\ Answer(s, req[s], 204, {})
    /\ UNCHANGED race

\* ----------------------------------------------------------- list_comments
ListCommentsBegin(s, P) ==
    \E p \in P :
        LET r == Req("list_comments", p, "", "", "") IN
        /\ Begin(s, r)
        /\ IF p \notin DOMAIN posts THEN Answer(s, r, 404, {})
           ELSE Goto(s, r, "list_comments_query", NoLoc)
        /\ UNCHANGED db

\* db.query(DBComment).filter(DBComment.postId == postId).all()
ListCommentsQuery(s) ==
    /\ pc[s] = "list_comments_query"
    /\ Answer(s, req[s], 200, {comments[c] : c \in CommentsOfPost(comments, req[s].postId)})
    /\ UNCHANGED <<db, race>>

\* ---------------------------------------------------------- create_comment
CreateCommentBegin(s, P) ==
    \E p \in P, u \in Usernames, t \in Contents :
        LET r == Req("create_comment", p, "", u, t) IN
        /\ Begin(s, r)
        /\ IF ~ValidPostBody(u, t) THEN Answer(s, r, 422, {})
           ELSE IF p \notin DOMAIN posts THEN Answer(s, r, 404, {})
           ELSE IF Falsy(u) \/ Falsy(t) THEN Answer(s, r, 400, {})
           ELSE Goto(s, r, "create_comment_commit", NoLoc)
        /\ UNCHANGED db

\* db.add(db_comment); db.commit() with the id generate_id draws (from C); an id
\* already in the table fails the INSERT.  The postId is not checked by the store.
CreateCommentCommit(s, C) ==
    /\ pc[s] = "create_comment_commit"
    /\ \E id \in C :
         IF id \in DOMAIN comments
           THEN Answer(s, req[s], 500, {}) /\ UNCHANGED db
           ELSE /\ comments' = (id :> CommentRow(id, req[s].postId, req[s].username,
                                                 req[s].content, clock, clock)) @@ comments
                /\ Goto(s, req[s], "create_comment_refresh", [NoLoc EXCEPT !.commentId = id])
                /\ UNCHANGED <<posts, likes>>
    /\ UNCHANGED race

\* db.refresh(db_comment); return db_comment
CreateCommentRefresh(s) ==
    /\ pc[s] = "create_comment_refresh"
    /\ LET id == loc[s].commentId IN
         IF id \in DOMAIN comments
           THEN Answer(s, req[s], 201, {comments[id]})
           ELSE Answer(s, req[s], 500, {})
    /\ UNCHANGED <<db, race>>

\* ------------------------------------------------------------- get_comment
GetComment_ById(s, P, C) ==
    \E p \in P, c \in C :
        LET r == Req("get_comment", p, c, "", "") IN
        /\ Begin(s, r)
        /\ IF c \in DOMAIN comments
             THEN Answer(s, r, 200, {comments[c]})
             ELSE Answer(s, r, 404, {})
        /\ UNCHANGED db
\* One query on both the comment id and the postId of the path.
GetComment(s, P, C) ==
    \E p \in P, c \in C :
        LET r == Req("get_comment", p, c, "", "") IN
        /\ Begin(s, r)
        /\ IF c \in DOMAIN comments /\ comments[c].postId = p
             THEN Answer(s, r, 200, {comments[c]})
             ELSE Answer(s, r, 404, {})
        /\ UNCHANGED db

\* ---------------------------------------------------------- update_comment
\* Body validation, then one query on both the comment id and the postId of the
\* path, and the handler's own check.
UpdateCommentBegin(s, P, C) ==
    \E p \in P, c \in C, u \in Usernames, t \in Contents :
        LET r == Req("update_comment", p, c, u, t) IN
        /\ Begin(s, r)
        /\ IF ~ValidPostBody(u, t) THEN Answer(s, r, 422, {})
           ELSE IF ~(c \in DOMAIN comments /\ comments[c].postId = p)
             THEN Answer(s, r, 404, {})
           ELSE IF Falsy(u) \/ Falsy(t) THEN Answer(s, r, 400, {})
           ELSE Goto(s, r, "update_comment_commit", [NoLoc EXCEPT !.comment = comments[c]])
        /\ UNCHANGED db

UpdateCommentCommit_Replace(s) ==
    /\ pc[s] = "update_comment_commit"
    /\ req[s].commentId \in DOMAIN comments
    /\ comments' = [comments EXCEPT ![req[s].commentId] =
                        CommentRow(req[s].commentId, req[s].postId, req[s].username,
                                   req[s].content, clock, clock)]
    /\ Goto(s, req[s], "update_comment_refresh", NoLoc)
    /\ UNCHANGED <<posts, likes, race>>
\* comment.username = ...; comment.content = ...; comment.updatedAt =
\* datetime.utcnow(); db.commit().  The UPDATE (WHERE id = c) sets the columns whose
\* value differs from the one loaded, and updatedAt; no row matched raises
\* StaleDataError.
UpdateCommentCommit(s) ==
    /\ pc[s] = "update_comment_commit"
    /\ LET c == req[s].commentId
           old == loc[s].comment
       IN IF c \notin DOMAIN comments
            THEN Answer(s, req[s], 500, {}) /\ UNCHANGED db
            ELSE /\ comments' = [comments EXCEPT
                       ![c].username = IF req[s].username # old.username
                                         THEN req[s].username ELSE @,
                       ![c].content = IF req[s].content # old.content
                                        THEN req[s].content ELSE @,
                       ![c].updatedAt = clock]
                 /\ Goto(s, req[s], "update_comment_refresh", NoLoc)
                 /\ UNCHANGED <<posts, likes>>
    /\ UNCHANGED race

\* db.refresh(comment); return comment
UpdateCommentRefresh(s) ==
    /\ pc[s] = "update_comment_refresh"
    /\ LET c == req[s].commentId IN
         IF c \in DOMAIN comments
           THEN Answer(s, req[s], 200, {comments[c]})
           ELSE Answer(s, req[s], 500, {})
    /\ UNCHANGED <<db, race>>

\* ---------------------------------------------------------- delete_comment
DeleteCommentBegin_DeleteFirst(s, P, C) ==
    \E p \in P, c \in C :
        LET r == Req("delete_comment", p, c, "", "") IN
        /\ Begin(s, r)
        /\ IF c \notin DOMAIN comments
             THEN Answer(s, r, 404, {}) /\ UNCHANGED db
             ELSE /\ comments' = DeleteComments(comments, {c})
                  /\ IF comments[c].postId = p
                       THEN Answer(s, r, 204, {}) ELSE Answer(s, r, 404, {})
                  /\ UNCHANGED <<posts, likes>>
\* One query on both the comment id and the postId of the path.
DeleteCommentBegin(s, P, C) ==
    \E p \in P, c \in C :
        LET r == Req("delete_comment", p, c, "", "") IN
        /\ Begin(s, r)
        /\ IF ~(c \in DOMAIN comments /\ comments[c].postId = p)
             THEN Answer(s, r, 404, {})
             ELSE Goto(s, r, "delete_comment_commit", NoLoc)
        /\ UNCHANGED db

\* db.delete(comment); db.commit(): DELETE FROM comments WHERE id = c (no row
\* matched is only a warning); 204.
DeleteCommentCommit(s) ==
    /\ pc[s] = "delete_comment_commit"
    /\ comments' = DeleteComments(comments, {req[s].commentId})
    /\ Answer(s, req[s], 204, {})
    /\ UNCHANGED <<posts, likes, race>>

\* ---------------------------------------------------------- specifications
\* Requests served one at a time by one worker: the post and like handlers on two
\* post ids.
NextSeq ==
    \/ CreatePost("s1", PostIds) \/ CreatePostRefresh("s1")
    \/ GetPost("s1", PostIds)
    \/ UpdatePostBegin("s1", PostIds) \/ UpdatePostCommit("s1") \/ UpdatePostRefresh("s1")
    \/ DeletePostBegin("s1", PostIds) \/ DeletePostLoadComments("s1")
    \/ DeletePostLoadLikes("s1") \/ DeletePostCommit("s1")
    \/ LikePostBegin("s1", PostIds) \/ LikePostCheck("s1") \/ LikePostCommit("s1")
    \/ LikePostRefresh("s1")
    \/ UnlikePostBegin("s1", PostIds) \/ UnlikePostCheck("s1") \/ UnlikePostCommit("s1")
    \/ UnlikePostRefresh("s1")
SpecSeq == Init /\ [][NextSeq]_vars

\* Overlapping create_post, update_post, like_post and unlike_post requests on one post.
NextLikes ==
    \E s \in Sessions :
        \/ CreatePost(s, OnePost) \/ CreatePostRefresh(s)
        \/ UpdatePostBegin(s, OnePost) \/ UpdatePostCommit(s) \/ UpdatePostRefresh(s)
        \/ LikePostBegin(s, OnePost) \/ LikePostCheck(s) \/ LikePostCommit(s)
        \/ LikePostRefresh(s) \/ LikePostRollback(s)
        \/ UnlikePostBegin(s, OnePost) \/ UnlikePostCheck(s) \/ UnlikePostCommit(s)
        \/ UnlikePostRefresh(s)
SpecLikes == Init /\ [][NextLikes]_vars

\* Overlapping create_post, delete_post, like_post and unlike_post requests on one post.
NextUnique ==
    \E s \in Sessions :
        \/ CreatePost(s, OnePost) \/ CreatePostRefresh(s)
        \/ DeletePostBegin(s, OnePost) \/ DeletePostLoadComments(s)
        \/ DeletePostLoadLikes(s) \/ DeletePostCommit(s)
        \/ LikePostBegin(s, OnePost) \/ LikePostCheck(s) \/ LikePostCommit(s)
        \/ LikePostRefresh(s) \/ LikePostRollback(s)
        \/ UnlikePostBegin(s, OnePost) \/ UnlikePostCheck(s) \/ UnlikePostCommit(s)
        \/ UnlikePostRefresh(s)
SpecUnique == Init /\ [][NextUnique]_vars

\* Overlapping create_post, delete_post, create_comment and like_post requests, and
\* the reads, on one post id and one comment id.
NextCascade ==
    \E s \in Sessions :
        \/ CreatePost(s, OnePost) \/ CreatePostRefresh(s)
        \/ GetPost(s, OnePost) \/ GetComment(s, OnePost, OneComment)
        \/ ListCommentsBegin(s, OnePost) \/ ListCommentsQuery(s)
        \/ DeletePostBegin(s, OnePost) \/ DeletePostLoadComments(s)
        \/ DeletePostLoadLikes(s) \/ DeletePostCommit(s)
        \/ CreateCommentBegin(s, OnePost) \/ CreateCommentCommit(s, OneComment)
        \/ CreateCommentRefresh(s)
        \/ LikePostBegin(s, OnePost) \/ LikePostCheck(s) \/ LikePostCommit(s)
        \/ LikePostRefresh(s) \/ LikePostRollback(s)
SpecCascade == Init /\ [][NextCascade]_vars

\* Requests served one at a time by one worker: all twelve handlers on two post ids
\* (likes on one of them) and two comment ids (one of them ever created).
NextComments ==
    \/ ListPosts("s1")
    \/ CreatePost("s1", PostIds) \/ CreatePostRefresh("s1")
    \/ GetPost("s1", PostIds)
    \/ UpdatePostBegin("s1", PostIds) \/ UpdatePostCommit("s1") \/ UpdatePostRefresh("s1")
    \/ DeletePostBegin("s1", PostIds) \/ DeletePostLoadComments("s1")
    \/ DeletePostLoadLikes("s1") \/ DeletePostCommit("s1")
    \/ ListCommentsBegin("s1", PostIds) \/ ListCommentsQuery("s1")
    \/ CreateCommentBegin("s1", PostIds) \/ CreateCommentCommit("s1", OneComment)
    \/ CreateCommentRefresh("s1")
    \/ GetComment("s1", PostIds, CommentIds)
    \/ UpdateCommentBegin("s1", PostIds, CommentIds) \/ UpdateCommentCommit("s1")
    \/ UpdateCommentRefresh("s1")
    \/ DeleteCommentBegin("s1", PostIds, CommentIds) \/ DeleteCommentCommit("s1")
    \/ LikePostBegin("s1", OnePost) \/ LikePostCheck("s1") \/ LikePostCommit("s1")
    \/ LikePostRefresh("s1")
    \/ UnlikePostBegin("s1", OnePost) \/ UnlikePostCheck("s1") \/ UnlikePostCommit("s1")
    \/ UnlikePostRefresh("s1")
SpecComments == Init /\ [][NextComments]_vars

\* Requests served one at a time by one worker while the clock advances: creating,
\* reading and updating a post and a comment.
NextClock ==
    \/ Tick
    \/ ListPosts("s1")
    \/ CreatePost("s1", OnePost) \/ CreatePostRefresh("s1")
    \/ GetPost("s1", OnePost)
    \/ UpdatePostBegin("s1", OnePost) \/ UpdatePostCommit("s1") \/ UpdatePostRefresh("s1")
    \/ CreateCommentBegin("s1", OnePost) \/ CreateCommentCommit("s1", OneComment)
    \/ CreateCommentRefresh("s1")
    \/ GetComment("s1", OnePost, OneComment)
    \/ UpdateCommentBegin("s1", OnePost, OneComment) \/ UpdateCommentCommit("s1")
    \/ UpdateCommentRefresh("s1")
SpecClock == Init /\ [][NextClock]_vars

\* Requests served one at a time by one worker while the clock advances: creating
\* posts (two ids), updating and liking one of them, creating and updating a comment
\* on it.
NextFrame ==
    \/ Tick
    \/ CreatePost("s1", PostIds) \/ CreatePostRefresh("s1")
    \/ UpdatePostBegin("s1", OnePost) \/ UpdatePostCommit("s1") \/ UpdatePostRefresh("s1")
    \/ CreateCommentBegin("s1", OnePost) \/ CreateCommentCommit("s1", OneComment)
    \/ CreateCommentRefresh("s1")
    \/ UpdateCommentBegin("s1", OnePost, OneComment) \/ UpdateCommentCommit("s1")
    \/ UpdateCommentRefresh("s1")
    \/ LikePostBegin("s1", OnePost) \/ LikePostCheck("s1") \/ LikePostCommit("s1")
    \/ LikePostRefresh("s1")
SpecFrame == Init /\ [][NextFrame]_vars

\* ------------------------------------------------------------------ claims
CounterIsRowCount(p) == posts[p].likes = Cardinality(LikesOfPost(likes, p))

\* C1: when requests are served one at a time, after any sequence of them every
\* post's likes counter equals the number of Like rows stored for that post.
C1_CounterEqualsRows ==
    Quiet => \A p \in DOMAIN posts : CounterIsRowCount(p)

\* C1 witness: an unlike_post has just removed one of two likes (the row left has
\* id 2) and was answered 200 with the counter at 1.
C1_Witness ==
    /\ Quiet
    /\ out.req.op = "unlike_post" /\ out.status = 200
    /\ out.req.postId \in DOMAIN posts
    /\ posts[out.req.postId].likes = 1
    /\ \E l \in likes : l.postId = out.req.postId /\ l.id = 2

\* C2: once two like_post requests of one (postId, username) pair that both passed
\* the existing-like lookup before either committed have both finished, there is
\* exactly one Like row of the pair and the counter is one above its value before.
C2_RaceOneRowOneIncrement ==
    (race.on /\ pc[race.a] = "idle" /\ pc[race.b] = "idle") =>
        /\ Cardinality(LikesOf(likes, race.postId, race.username)) = 1
        /\ posts[race.postId].likes = race.base + 1

\* C2 witness: both racing requests have finished, the last one answered 200.
C2_Witness ==
    /\ race.on /\ pc[race.a] = "idle" /\ pc[race.b] = "idle"
    /\ out.req.op = "like_post" /\ out.status = 200

\* C3 as claimed: whenever no request is in flight, after overlapping like_post and
\* unlike_post requests, every post's counter equals its number of Like rows.
C3_QuietCounterEqualsRows ==
    (\A s \in Sessions : pc[s] = "idle") => \A p \in DOMAIN posts : CounterIsRowCount(p)

\* C4: in every reachable state there is at most one Like row for each
\* (postId, username) pair.
C4_AtMostOneLikePerPair ==
    \A l1, l2 \in likes :
        (l1.postId = l2.postId /\ l1.username = l2.username) => l1 = l2

\* C4 witness: the unique constraint has just refused a second row for a pair.
C4_Witness ==
    \E s \in Sessions :
        /\ pc[s] = "like_rollback"
        /\ LikesOf(likes, req[s].postId, req[s].username) # {}

\* C5: like_post is idempotent when served one at a time: a like_post answered 200
\* leaves a Like row of its pair (the first call), and every step of a like_post
\* request for an existing post served while a row of its pair exists (the second
\* call) leaves the store unchanged and, when it answers, answers 200 with the post.
C5_LikeIdempotent ==
    [][ /\ (out'.req.op = "like_post" /\ out'.status = 200) =>
              LikesOf(likes', out'.req.postId, out'.req.username) # {}
        /\ \A s \in Sessions, p \in PostIds, u \in Usernames \ {""} :
              LET r == Req("like_post", p, "", u, "") IN
              (/\ p \in DOMAIN posts
               /\ LikesOf(likes, p, u) # {}
               /\ \/ req[s] = r
                  \/ req'[s] = r
                  \/ pc[s] = "idle" /\ pc'[s] = "idle" /\ out'.req = r) =>
                  /\ db' = db
                  /\ pc'[s] = "idle" =>
                        out' = [req |-> r, status |-> 200, body |-> {posts[p]}]
      ]_vars

\* C5 witness: a like_post of a pair that already has its row has looked the post up
\* and is about to look for the existing like.
C5_Witness ==
    \E s \in Sessions :
        /\ pc[s] = "like_check"
        /\ LikesOf(likes, req[s].postId, req[s].username) # {}
        /\ posts[req[s].postId].likes = 1

\* C6: when served one at a time, an unlike_post for an existing post and a
\* (non-empty) username with no Like row on it is not refused, leaves the counter
\* and the Like rows unchanged at every step, and answers 200 with the post.
C6_UnlikeNeverLiked ==
    [][ \A s \in Sessions, p \in PostIds, u \in Usernames \ {""} :
          LET r == Req("unlike_post", p, "", u, "") IN
          (/\ p \in DOMAIN posts
           /\ LikesOf(likes, p, u) = {}
           /\ \/ req[s] = r
              \/ req'[s] = r
              \/ pc[s] = "idle" /\ pc'[s] = "idle" /\ out'.req = r) =>
              /\ db' = db
              /\ pc'[s] = "idle" =>
                    out' = [req |-> r, status |-> 200, body |-> {posts[p]}]
      ]_vars

\* C6 witness: an unlike_post by a user with no row, on a post another user likes,
\* is about to look for its like.
C6_Witness ==
    \E s \in Sessions :
        /\ pc[s] = "unlike_check"
        /\ LikesOf(likes, req[s].postId, req[s].username) = {}
        /\ posts[req[s].postId].likes = 1

\* C7: in every reachable state every post's likes counter is at least 0.
C7_LikesNonNegative ==
    \A p \in DOMAIN posts : posts[p].likes >= 0

\* C7 witness: an unlike_post found its Like row after loading a counter of 0, so
\* its decrement is the one the floor applies to.
C7_Witness ==
    \E s \in Sessions : pc[s] = "unlike_commit" /\ loc[s].post.likes = 0

\* C8 as claimed: when delete_post has just answered 204, the post is gone and no
\* Comment row and no Like row carries its id.
C8_DeleteLeavesNothing ==
    (out.req.op = "delete_post" /\ out.status = 204) =>
        /\ out.req.postId \notin DOMAIN posts
        /\ CommentsOfPost(comments, out.req.postId) = {}
        /\ LikesOfPost(likes, out.req.postId) = {}

\* C9 as claimed: every stored Comment row and Like row references a stored Post.
C9_NoOrphans ==
    /\ \A c \in DOMAIN comments : comments[c].postId \in DOMAIN posts
    /\ \A l \in likes : l.postId \in DOMAIN posts

\* C10 as claimed: a create_post with an empty username or content is answered 400.
C10_EmptyCreateIs400 ==
    (out.req.op = "create_post" /\ (out.req.username = "" \/ out.req.content = "")) =>
        out.status = 400

\* C11: every step that answers a request with 400 or 404, whichever of the twelve
\* handlers serves it, leaves every Post, Comment and Like row (likes counters and
\* updatedAt values included) as it was.
C11_NotFoundLeavesStore ==
    [][out'.status \in {400, 404} => db' = db]_vars

\* C11 witness: a request was answered 404 while the store holds a post, a comment
\* of another post than the one addressed, and a like.
C11_Witness ==
    /\ out.status = 404
    /\ out.req.op \in {"update_comment", "delete_comment"}
    /\ out.req.commentId \in DOMAIN comments
    /\ out.req.postId \in DOMAIN posts
    /\ likes # {}

\* C12: a like_post whose commit was refused by the unique constraint answers 200
\* with the post as stored, and when it lost the race recorded in race (the other
\* like_post of the pair committed first, both having loaded the same counter) the
\* post it returns carries the counter the winner committed, one above that value.
C12_RaceLoserReturnsWinnersPost ==
    [][ \A s \in Sessions :
          (pc[s] = "like_rollback" /\ pc'[s] = "idle") =>
              /\ out'.status = 200
              /\ out'.body = {posts'[req[s].postId]}
              /\ (race.on /\ s \in {race.a, race.b}) =>
                    \A b \in out'.body : b.likes = race.base + 1
      ]_vars

\* C12 witness: the loser of a recorded race has been answered 200 while the winner,
\* which committed, has not answered yet.
C12_Witness ==
    /\ race.on
    /\ out.req.op = "like_post" /\ out.status = 200
    /\ out.req.postId = race.postId /\ out.req.username = race.username
    /\ \E t \in {race.a, race.b} : pc[t] = "like_refresh"
    /\ \E t \in {race.a, race.b} : pc[t] = "idle"
    /\ \A b \in out.body : b.likes = race.base + 1

\* C13: a get_post answered directly after the 201 of a create_post (no request in
\* between), for the id that 201 returned, is answered 200 with the very post the
\* 201 carried (same id, username, content, createdAt, updatedAt), which has the
\* username and content sent and likes 0.
C13_GetAfterCreate ==
    (/\ out.req.op = "get_post"
     /\ prev.status = 201
     /\ out.req.postId \in {b.id : b \in prev.body}) =>
        /\ out.status = 200
        /\ out.body = prev.body
        /\ \A b \in out.body : /\ b.likes = 0
                                /\ b.username = prev.req.username
                                /\ b.content = prev.req.content

\* C13 witness: such a get_post has been answered, for a post created before the
\* clock last advanced and answered after it.
C13_Witness ==
    /\ out.req.op = "get_post" /\ out.status = 200
    /\ prev.status = 201
    /\ out.body = prev.body
    /\ \A b \in out.body : b.createdAt < clock

\* C14 as claimed: the commit of every update_post and update_comment that succeeds
\* sets updatedAt to the clock reading taken at the write, and that value is
\* strictly later than the updatedAt the row had before.
C14_UpdatedAtStrictlyLater ==
    [][ \A s \in Sessions :
          /\ (pc[s] = "update_post_commit" /\ pc'[s] = "update_post_refresh") =>
                /\ posts'[req[s].postId].updatedAt = clock
                /\ posts'[req[s].postId].updatedAt > posts[req[s].postId].updatedAt
          /\ (pc[s] = "update_comment_commit" /\ pc'[s] = "update_comment_refresh") =>
                /\ comments'[req[s].commentId].updatedAt = clock
                /\ comments'[req[s].commentId].updatedAt > comments[req[s].commentId].updatedAt
      ]_vars

\* C14 amended: served one at a time, the commit of every update_post and
\* update_comment that succeeds sets updatedAt to the clock reading taken at the
\* write, a value not earlier than the updatedAt the row had before, and strictly
\* later when the clock has advanced since that earlier value was written.
C14_UpdatedAtIsClockReading ==
    [][ \A s \in Sessions :
          /\ (pc[s] = "update_post_commit" /\ pc'[s] = "update_post_refresh") =>
                LET before == posts[req[s].postId].updatedAt
                    after == posts'[req[s].postId].updatedAt
                IN /\ after = clock
                   /\ after >= before
                   /\ clock > before => after > before
          /\ (pc[s] = "update_comment_commit" /\ pc'[s] = "update_comment_refresh") =>
                LET before == comments[req[s].commentId].updatedAt
                    after == comments'[req[s].commentId].updatedAt
                IN /\ after = clock
                   /\ after >= before
                   /\ clock > before => after > before
      ]_vars

\* C14 witness: an update_post was answered 200 with an updatedAt later than the
\* post's createdAt.
C14_Witness ==
    /\ out.req.op = "update_post" /\ out.status = 200
    /\ \A b \in out.body : b.updatedAt > b.createdAt /\ b.updatedAt = clock

\* C15 as claimed: an update_post, create_comment, like_post or unlike_post for a
\* post that does not exist, or an update_comment for a comment that does not exist
\* under the post of its path, whose body has an empty required field, is answered
\* 404.
C15_MissingTargetIs404 ==
    /\ (/\ out.req.op \in {"update_post", "create_comment"}
        /\ out.req.postId \notin DOMAIN posts
        /\ (out.req.username = "" \/ out.req.content = "")) => out.status = 404
    /\ (/\ out.req.op \in {"like_post", "unlike_post"}
        /\ out.req.postId \notin DOMAIN posts
        /\ out.req.username = "") => out.status = 404
    /\ (/\ out.req.op = "update_comment"
        /\ ~(/\ out.req.commentId \in DOMAIN comments
             /\ comments[out.req.commentId].postId = out.req.postId)
        /\ (out.req.username = "" \/ out.req.content = "")) => out.status = 404

\* C16 as claimed: when a like_post ends in 500 the store holds no Like row of its
\* (postId, username) pair from that request, also when the 500 comes after the
\* request's commit; and when an unlike_post ends in 500 after its commit, the post
\* whose counter it decremented together with deleting the row is still stored.
C16_ErrorLeavesNeitherChange ==
    [][ \A s \in Sessions :
          /\ (pc[s] = "like_refresh" /\ pc'[s] = "idle" /\ out'.status = 500) =>
                LikesOf(likes', req[s].postId, req[s].username) = {}
          /\ (pc[s] = "unlike_refresh" /\ pc'[s] = "idle" /\ out'.status = 500) =>
                req[s].postId \in DOMAIN posts'
      ]_vars

\* C17: served one at a time, the steps of an update_post request change nothing but
\* the username, content and updatedAt of the post addressed (its id, createdAt and
\* likes, every other post, and all Comment and Like rows stay as they are), and
\* the steps of an update_comment request change nothing but the username, content
\* and updatedAt of the comment addressed.
C17_UpdateFrame ==
    [][ \A s \in Sessions :
          /\ (req[s].op = "update_post" \/ req'[s].op = "update_post") =>
                LET p == IF req[s].op = "update_post" THEN req[s].postId ELSE req'[s].postId
                IN /\ comments' = comments
                   /\ likes' = likes
                   /\ DOMAIN posts' = DOMAIN posts
                   /\ \A q \in DOMAIN posts :
                         /\ q # p => posts'[q] = posts[q]
                         /\ posts'[q].id = posts[q].id
                         /\ posts'[q].createdAt = posts[q].createdAt
                         /\ posts'[q].likes = posts[q].likes
          /\ (req[s].op = "update_comment" \/ req'[s].op = "update_comment") =>
                LET c == IF req[s].op = "update_comment"
                           THEN req[s].commentId ELSE req'[s].commentId
                IN /\ posts' = posts
                   /\ likes' = likes
                   /\ DOMAIN comments' = DOMAIN comments
                   /\ \A d \in DOMAIN comments :
                         /\ d # c => comments'[d] = comments[d]
                         /\ comments'[d].id = comments[d].id
                         /\ comments'[d].postId = comments[d].postId
                         /\ comments'[d].createdAt = comments[d].createdAt
      ]_vars

\* C17 witness: an update_post was answered 200 for a liked and commented post,
\* created at an earlier clock reading, while another post is stored.
C17_Witness ==
    /\ out.req.op = "update_post" /\ out.status = 200
    /\ \A b \in out.body : b.likes = 1 /\ b.updatedAt > b.createdAt
    /\ CommentsOfPost(comments, out.req.postId) # {}
    /\ LikesOfPost(likes, out.req.postId) # {}
    /\ DOMAIN posts \ {out.req.postId} # {}

\* C18: a get_comment, update_comment (with a non-empty username and content) or
\* delete_comment whose commentId is stored under another post than the one of the
\* path is answered 404 with no comment in the response and the store unchanged,
\* and a request of these three handlers goes past its lookup only when the
\* commentId is stored with the postId of the path.
C18_CommentOnlyUnderItsPost ==
    [][ /\ (/\ out'.status # 0
            /\ out'.req.op \in {"get_comment", "update_comment", "delete_comment"}
            /\ out'.req.op = "update_comment" =>
                  (out'.req.username # "" /\ out'.req.content # "")
            /\ out'.req.commentId \in DOMAIN comments
            /\ comments[out'.req.commentId].postId # out'.req.postId) =>
              /\ out'.status = 404
              /\ out'.body = {}
              /\ db' = db
        /\ \A s \in Sessions :
              (/\ pc[s] = "idle" /\ pc'[s] # "idle"
               /\ req'[s].op \in {"get_comment", "update_comment", "delete_comment"}) =>
                  /\ req'[s].commentId \in DOMAIN comments
                  /\ comments[req'[s].commentId].postId = req'[s].postId
      ]_vars

\* C18 witness: a delete_comment addressed a stored comment through another stored
\* post than its own and was answered 404; the comment is still stored.
C18_Witness ==
    /\ out.req.op = "delete_comment" /\ out.status = 404
    /\ out.req.postId \in DOMAIN posts
    /\ out.req.commentId \in DOMAIN comments
    /\ comments[out.req.commentId].postId # out.req.postId
    /\ comments[out.req.commentId].postId \in DOMAIN posts

====
